---- MODULE Spec2Model ----
(***************************************************************************)
(* Model of lwe_plugin_provider_chat_together/plugin.py: the ChatTogether  *)
(* client constructor and the ProviderChatTogether descriptor (static      *)
(* model registry or discovery through GET {base}/models).                 *)
(*                                                                         *)
(* Python values are represented as follows.                               *)
(*   None (for strings)  the string None == "<None>"                       *)
(*   optional mapping    a record [some, val]; some = FALSE is None        *)
(*   dict of a model     a record [id, type, context_length, keys]; keys   *)
(*                       is the set of keys the dict holds, and a field    *)
(*                       whose key is not in keys is never read            *)
(*   exception           a record [class, msg, cause]                      *)
(***************************************************************************)
EXTENDS Integers, Sequences, FiniteSets, TLC

\* ------------------------------------------------------------------ bounds

\* Longest model list the service returns in the model.
MaxList == 2

\* ------------------------------------------------------------ Python values

None == "<None>"

\* bool(x) is False for None and for the empty string.
FalsyStr(x) == x = None \/ x = ""

EmptyRegistry == [k \in {} |-> [max_tokens |-> 0]]

Nothing == [some |-> FALSE, val |-> EmptyRegistry]

Some(r) == [some |-> TRUE, val |-> r]

\* bool(x) of an optional mapping: None and {} are both falsy.
Truthy(opt) == opt.some /\ DOMAIN opt.val # {}

NoError == [class |-> "", msg |-> "", cause |-> ""]

KeyError(k) == [class |-> "KeyError", msg |-> k, cause |-> ""]

TypeError(m) == [class |-> "TypeError", msg |-> m, cause |-> ""]

\* ValueError('Could not retrieve models') and
\* ValueError(f"Could not retrieve models: {e}"); cause is e, "" when there is none.
CouldNotRetrieve(cause) ==
    [class |-> "ValueError", msg |-> "Could not retrieve models", cause |-> cause]

\* ValueError("TOGETHER_API_KEY is not set")
KeyNotSet == [class |-> "ValueError", msg |-> "TOGETHER_API_KEY is not set", cause |-> ""]

\* json.JSONDecodeError, a subclass of ValueError, when it is not a RequestException.
JSONDecodeError == [class |-> "JSONDecodeError", msg |-> "Expecting value", cause |-> ""]

IsValueError(e) == e.class \in {"ValueError", "JSONDecodeError"}

Ok(r) == [ok |-> TRUE, val |-> r, err |-> NoError]

Raise(e) == [ok |-> FALSE, val |-> EmptyRegistry, err |-> e]

\* ------------------------------------------------------- the environment

\* Values of the TOGETHER_API_KEY environment variable; None is "unset".
EnvValues == {None, "", "sk-env"}

ContextLengths == {4096, 8192}

AllKeys == {"id", "type", "context_length"}

Entry(i, t, c, ks) == [id |-> i, type |-> t, context_length |-> c, keys |-> ks]

\* Model objects with every field of the expected response.
WellFormedEntries ==
    {Entry(i, "chat", c, AllKeys) : i \in {"m1", "m2"}, c \in ContextLengths}
        \cup {Entry(i, "language", 4096, AllKeys) : i \in {"m1", "m2"}}

\* Model objects that lack a field.
MalformedEntries ==
    {Entry("m1", "chat", 4096, AllKeys \ {k}) : k \in AllKeys}
        \cup {Entry("m2", "language", 4096, {"type"})}

Entries == WellFormedEntries \cup MalformedEntries

Lists == UNION {[1..n -> Entries] : n \in 0..MaxList}

Body(k, l) == [kind |-> k, list |-> l]

\* Response bodies: not JSON at all (also the empty body), JSON null, a
\* non-empty JSON object, and a JSON array of model objects.
Bodies ==
    {Body("nonjson", <<>>), Body("null", <<>>), Body("object", <<>>)}
        \cup {Body("list", l) : l \in Lists}

Response(k, s, b) == [kind |-> k, status |-> s, body |-> b]

\* What the service answers to GET {base}/models: no answer (a network-level
\* fault), an error status, or 200 with a body.
Responses ==
    {Response("fault", 0, Body("null", <<>>))}
        \cup {Response("http", s, Body("null", <<>>)) : s \in {401, 500}}
        \cup {Response("http", 200, b) : b \in Bodies}

StaticRegistry(S) == [k \in S |-> [max_tokens |-> 4096]]

\* Values of the host configuration key plugins.provider_chat_together.models.
ConfigValues ==
    {Nothing} \cup {Some(StaticRegistry(S)) : S \in {{}, {"m1"}, {"m1", "m9"}}}

\* Keyword arguments of ChatTogether(**kwargs) that concern the credential.
Kwargs ==
    {[has_key |-> FALSE, openai_api_key |-> None]}
        \cup {[has_key |-> TRUE, openai_api_key |-> k] : k \in {None, "", "sk-arg"}}

\* ------------------------------------------------------------------ state

VARIABLES
    env,          \* os.environ's TOGETHER_API_KEY
    config,       \* the host configuration's model registry, if any
    upstream,     \* the service's answer to GET {base}/models
    status,       \* the descriptor: "none", "ready" or "failed"
    models,       \* self.models of the descriptor
    err,          \* the exception that ended ProviderChatTogether.__init__
    source,       \* which operand of line 44 was evaluated last
    httpGets,     \* number of requests.get calls issued
    authSent,     \* the credential of the Authorization header sent
    client,       \* the outcome of the last ChatTogether(**kwargs)
    lastCaps,     \* the last value of the capabilities property
    lastOptions   \* model_name options of the last customization_config()

vars == <<env, config, upstream, status, models, err, source, httpGets,
          authSent, client, lastCaps, lastOptions>>

NoClient ==
    [status |-> "none", kwargs |-> [has_key |-> FALSE, openai_api_key |-> None],
     openai_api_key |-> None, superCalled |-> FALSE, err |-> NoError]

NoCaps == [some |-> FALSE, chat |-> FALSE, validate_models |-> FALSE, models |-> EmptyRegistry]

NoOptions == [some |-> FALSE, model_name |-> {}]

\* ----------------------------------------------------------- ChatTogether

\* A variant of ResolveApiKey that prefers the environment over the argument.
ResolveApiKeyEnvFirst(kwargs, e) ==
    IF e # None THEN e ELSE kwargs.openai_api_key

\* Lines 28-31: the explicit argument when the key is in kwargs, else os.getenv.
ResolveApiKey(kwargs, e) ==
    IF kwargs.has_key THEN kwargs.openai_api_key ELSE e

\* ChatTogether.__init__: the credential check, then the generic client's
\* constructor.
ChatTogetherInit(kwargs, e) ==
    LET openai_api_key == ResolveApiKey(kwargs, e) IN
    IF FalsyStr(openai_api_key)
    THEN [status |-> "failed", kwargs |-> kwargs, openai_api_key |-> None,
          superCalled |-> FALSE, err |-> KeyNotSet]
    ELSE [status |-> "ok", kwargs |-> kwargs, openai_api_key |-> openai_api_key,
          superCalled |-> TRUE, err |-> NoError]

\* --------------------------------------------------- ProviderChatTogether

Put(reg, k, v) == [x \in DOMAIN reg \cup {k} |-> IF x = k THEN v ELSE reg[x]]

\* A variant of BuildModels without the type filter.
RECURSIVE BuildModelsNoFilter(_, _)
BuildModelsNoFilter(lst, acc) ==
    IF lst = <<>> THEN Ok(acc)
    ELSE LET model == Head(lst) IN
         IF "id" \notin model.keys THEN Raise(KeyError("id"))
         ELSE IF "context_length" \notin model.keys THEN Raise(KeyError("context_length"))
         ELSE BuildModelsNoFilter(Tail(lst),
                                  Put(acc, model.id, [max_tokens |-> model.context_length]))

\* A variant of BuildModels that skips an entry it cannot read and keeps what
\* it has built.
RECURSIVE BuildModelsSkipBad(_, _)
BuildModelsSkipBad(lst, acc) ==
    IF lst = <<>> THEN Ok(acc)
    ELSE LET model == Head(lst) IN
         IF "type" \notin model.keys THEN BuildModelsSkipBad(Tail(lst), acc)
         ELSE IF model.type # "chat" THEN BuildModelsSkipBad(Tail(lst), acc)
         ELSE IF {"id", "context_length"} \subseteq model.keys
         THEN BuildModelsSkipBad(Tail(lst),
                                 Put(acc, model.id, [max_tokens |-> model.context_length]))
         ELSE BuildModelsSkipBad(Tail(lst), acc)

\* Line 59, the dict comprehension, entry by entry: the condition
\* model['type'] == 'chat', then the key model['id'], then the value
\* model['context_length']; a missing key raises KeyError.
RECURSIVE BuildModels(_, _)
BuildModels(lst, acc) ==
    IF lst = <<>> THEN Ok(acc)
    ELSE LET model == Head(lst) IN
         IF "type" \notin model.keys THEN Raise(KeyError("type"))
         ELSE IF model.type # "chat" THEN BuildModels(Tail(lst), acc)
         ELSE IF "id" \notin model.keys THEN Raise(KeyError("id"))
         ELSE IF "context_length" \notin model.keys THEN Raise(KeyError("context_length"))
         ELSE BuildModels(Tail(lst),
                          Put(acc, model.id, [max_tokens |-> model.context_length]))

\* A variant of FalsyBody that tests for None only.
FalsyBodyNoneOnly(body) == body.kind = "null"

\* Line 57: not models_list, for what response.json() returned.
FalsyBody(body) ==
    \/ body.kind = "null"
    \/ body.kind = "list" /\ body.list = <<>>

\* A variant of ModelsOf that also rejects an empty result.
ModelsOfRejectsEmptyResult(body) ==
    IF FalsyBody(body) THEN Raise(CouldNotRetrieve(""))
    ELSE IF body.kind = "object" THEN Raise(TypeError("string indices must be integers"))
    ELSE LET r == BuildModels(body.list, EmptyRegistry) IN
         IF r.ok /\ DOMAIN r.val = {} THEN Raise(CouldNotRetrieve("")) ELSE r

\* Lines 56-60 for a body that parsed as JSON.
ModelsOf(body) ==
    IF FalsyBody(body) THEN Raise(CouldNotRetrieve(""))
    ELSE IF body.kind = "object" THEN Raise(TypeError("string indices must be integers"))
    ELSE BuildModels(body.list, EmptyRegistry)

\* Line 55: raise_for_status raises HTTPError for a 4xx or 5xx status.
RaisesForStatus(resp) == resp.status >= 400 /\ resp.status < 600

\* fetch_models. The result also tells whether the GET was issued and with
\* which credential. jsonIsRequestException: whether the installed requests
\* raises its own JSONDecodeError (a RequestException) from response.json(),
\* or the json module's.
fetch_models(e, resp, jsonIsRequestException) ==
    IF e = None
    THEN [res |-> Raise(KeyError("TOGETHER_API_KEY")), gets |-> 0, auth |-> None]
    ELSE LET res ==
                 IF resp.kind = "fault"
                 THEN Raise(CouldNotRetrieve("ConnectionError"))
                 ELSE IF RaisesForStatus(resp)
                 THEN Raise(CouldNotRetrieve("HTTPError"))
                 ELSE IF resp.body.kind = "nonjson"
                 THEN IF jsonIsRequestException
                      THEN Raise(CouldNotRetrieve("JSONDecodeError"))
                      ELSE Raise(JSONDecodeError)
                 ELSE ModelsOf(resp.body)
         IN [res |-> res, gets |-> 1, auth |-> e]

\* Line 44: self.config.get(...) or self.fetch_models().
ResolveModels(cfg, e, resp, jsonIsRequestException) ==
    IF Truthy(cfg)
    THEN [res |-> Ok(cfg.val), gets |-> 0, auth |-> None, source |-> "config"]
    ELSE LET f == fetch_models(e, resp, jsonIsRequestException) IN
         [res |-> f.res, gets |-> f.gets, auth |-> f.auth, source |-> "fetch"]

\* The capabilities property.
capabilities(m) ==
    [some |-> TRUE, chat |-> TRUE, validate_models |-> FALSE, models |-> m]

\* Provider.available_models of the host: the keys of the "models" capability.
available_models(caps) == DOMAIN caps.models

\* A variant of customization_config whose options are a fixed list.
customization_config_fixed(m) ==
    [some |-> TRUE, model_name |-> {"meta-llama/Llama-3-8b-chat-hf"}]

\* customization_config(): the model_name options.
customization_config(m) ==
    [some |-> TRUE, model_name |-> available_models(capabilities(m))]

\* ---------------------------------------------------------------- actions

Init ==
    /\ env \in EnvValues
    /\ config \in ConfigValues
    /\ upstream \in Responses
    /\ status = "none"
    /\ models = Nothing
    /\ err = NoError
    /\ source = "none"
    /\ httpGets = 0
    /\ authSent = None
    /\ client = NoClient
    /\ lastCaps = NoCaps
    /\ lastOptions = NoOptions

\* ProviderChatTogether(config): self.models is assigned only when the right
\* hand side of line 44 returned; an exception leaves no object behind.
ProviderInit ==
    /\ status = "none"
    /\ \E jsonIsRequestException \in BOOLEAN :
         LET r == ResolveModels(config, env, upstream, jsonIsRequestException) IN
         /\ status' = IF r.res.ok THEN "ready" ELSE "failed"
         /\ models' = IF r.res.ok THEN Some(r.res.val) ELSE Nothing
         /\ err' = r.res.err
         /\ source' = r.source
         /\ httpGets' = httpGets + r.gets
         /\ authSent' = r.auth
    /\ UNCHANGED <<env, config, upstream, client, lastCaps, lastOptions>>

\* ChatTogether(**kwargs), by the host, for a conversation.
ClientInit ==
    /\ \E kwargs \in Kwargs : client' = ChatTogetherInit(kwargs, env)
    /\ UNCHANGED <<env, config, upstream, status, models, err, source, httpGets,
                   authSent, lastCaps, lastOptions>>

\* The host reads descriptor.capabilities.
ReadCapabilities ==
    /\ status = "ready"
    /\ lastCaps' = capabilities(models.val)
    /\ UNCHANGED <<env, config, upstream, status, models, err, source, httpGets,
                   authSent, client, lastOptions>>

\* The host calls descriptor.customization_config().
ReadCustomization ==
    /\ status = "ready"
    /\ lastOptions' = customization_config(models.val)
    /\ UNCHANGED <<env, config, upstream, status, models, err, source, httpGets,
                   authSent, client, lastCaps>>

Next ==
    \/ ProviderInit
    \/ ClientInit
    \/ ReadCapabilities
    \/ ReadCustomization

Spec == Init /\ [][Next]_vars

\* ----------------------------------------------------------------- claims

\* The descriptor's constructor ran the discovery and the GET was issued.
Discovered == status # "none" /\ source = "fetch" /\ httpGets = 1

\* The service answered 200 with a JSON array.
GotList == upstream.kind = "http" /\ upstream.status = 200 /\ upstream.body.kind = "list"

UpList == upstream.body.list

\* Indices of the entries of the answer whose type is "chat".
ChatIndices ==
    {i \in 1..Len(UpList) : "type" \in UpList[i].keys /\ UpList[i].type = "chat"}

\* Ids the service marked as chat-capable in its answer.
ChatIds ==
    IF GotList
    THEN {UpList[i].id : i \in {j \in ChatIndices : "id" \in UpList[j].keys}}
    ELSE {}

WellFormedList == GotList /\ \A i \in 1..Len(UpList) : UpList[i].keys = AllKeys

C2_StaticRegistrySkipsDiscovery ==
    status # "none" =>
        /\ config.some => (httpGets = 0 /\ status = "ready" /\ models = Some(config.val))
        /\ source = "fetch" => ~config.some

\* C3 (as stated): a discovery with TOGETHER_API_KEY unset or empty fails
\* without issuing the GET.
C3_NoGetWithoutCredential ==
    (status # "none" /\ source = "fetch" /\ FalsyStr(env)) =>
        (status = "failed" /\ httpGets = 0)

\* C4: every ChatTogether construction issues no GET; when it succeeds the
\* generic client was constructed with the explicit openai_api_key if the
\* argument was supplied and with TOGETHER_API_KEY otherwise; with no argument
\* and no (or an empty) TOGETHER_API_KEY it fails with "TOGETHER_API_KEY is
\* not set" and the generic client is not constructed.
C4_ClientCredential ==
    [][client' # client =>
         LET k == client'.kwargs IN
         /\ httpGets' = httpGets
         /\ client'.status \in {"ok", "failed"}
         /\ client'.status = "ok" =>
              /\ client'.superCalled
              /\ client'.openai_api_key = (IF k.has_key THEN k.openai_api_key ELSE env)
         /\ (~k.has_key /\ FalsyStr(env)) =>
              /\ client'.status = "failed"
              /\ client'.err = KeyNotSet
              /\ ~client'.superCalled]_vars

C4_Witness ==
    /\ client.status = "failed" /\ ~client.kwargs.has_key /\ env = None
    /\ client.err = KeyNotSet /\ ~client.superCalled /\ httpGets = 0

\* A body that is not the expected sequence of model objects.
MalformedBody ==
    /\ upstream.kind = "http" /\ upstream.status = 200
    /\ \/ upstream.body.kind \in {"nonjson", "object"}
       \/ upstream.body.kind = "list" /\ \E i \in 1..Len(UpList) : UpList[i].keys # AllKeys

\* C5 (as stated): when the GET of a discovery ends in a network fault, an
\* error status or a malformed body, the constructor fails with the "Could
\* not retrieve models" error carrying the cause, and there is no registry.
C5_DiscoveryFailureIsWrapped ==
    (Discovered /\ (upstream.kind = "fault" \/ RaisesForStatus(upstream) \/ MalformedBody)) =>
        /\ status = "failed"
        /\ err.class = "ValueError" /\ err.msg = "Could not retrieve models"
        /\ err.cause # ""
        /\ models = Nothing

\* The answer is a list in which every entry has a type and none is "chat".
NoChatEntries ==
    GotList /\ \A i \in 1..Len(UpList) : "type" \in UpList[i].keys /\ UpList[i].type # "chat"

EmptyOrAbsentBody ==
    /\ upstream.kind = "http" /\ upstream.status = 200
    /\ \/ upstream.body.kind \in {"nonjson", "null"}
       \/ upstream.body.kind = "list" /\ UpList = <<>>

\* C7: a discovery whose 200 answer has an empty or absent body fails with a
\* ValueError (for null and for the empty list, 'Could not retrieve models')
\* and leaves no registry.
C7_EmptyBodyFails ==
    (Discovered /\ EmptyOrAbsentBody) =>
        /\ status = "failed"
        /\ models = Nothing
        /\ IsValueError(err)
        /\ upstream.body.kind # "nonjson" => err = CouldNotRetrieve("")

C7_Witness ==
    /\ Discovered /\ upstream.kind = "http" /\ upstream.status = 200
    /\ upstream.body.kind = "null"
    /\ status = "failed" /\ err = CouldNotRetrieve("")

\* C8 (as stated): the registry of a ready descriptor, however it was
\* populated, holds only ids the service marked as chat-capable.
C8_RegistryOnlyChatCapable ==
    status = "ready" => DOMAIN models.val \subseteq ChatIds

\* C8 (amended): the registry of a descriptor populated by discovery holds
\* only ids the service marked as chat-capable in its answer.
C8_DiscoveredRegistryOnlyChatCapable ==
    (status = "ready" /\ source = "fetch") =>
        (GotList /\ DOMAIN models.val \subseteq ChatIds)

C8_Witness ==
    /\ status = "ready" /\ source = "fetch" /\ Len(UpList) = 2
    /\ DOMAIN models.val = {"m2"}
    /\ \E i \in 1..2 : UpList[i].id = "m1" /\ UpList[i].type = "language"

\* C9: the model_name options returned by customization_config() are the
\* keys of the descriptor's registry, which is the registry capabilities
\* reports under "models".
C9_OptionsAreRegistryKeys ==
    /\ lastOptions.some => (status = "ready" /\ lastOptions.model_name = DOMAIN models.val)
    /\ lastCaps.some => (status = "ready" /\ lastCaps.models = models.val)
    /\ (lastOptions.some /\ lastCaps.some) => lastOptions.model_name = DOMAIN lastCaps.models

C9_Witness ==
    /\ lastOptions.some /\ lastCaps.some /\ source = "fetch"
    /\ lastOptions.model_name = {"m1", "m2"}

\* C10: after the constructor ran, either the descriptor is ready, with no
\* error and the whole registry (the configured one, or one built from an
\* answer all of whose entries could be read and that holds every chat
\* entry), or it failed, and then there is an error, no registry, and nothing
\* was ever read from it.
C10_AllOrNothing ==
    /\ status = "none" => (models = Nothing /\ err = NoError)
    /\ status = "failed" =>
         (models = Nothing /\ err # NoError /\ lastCaps = NoCaps /\ lastOptions = NoOptions)
    /\ status = "ready" =>
         /\ models.some /\ err = NoError
         /\ source = "config" => models.val = config.val
         /\ source = "fetch" =>
              /\ GotList
              /\ \A i \in 1..Len(UpList) :
                   /\ "type" \in UpList[i].keys
                   /\ UpList[i].type = "chat" =>
                        /\ UpList[i].keys = AllKeys
                        /\ UpList[i].id \in DOMAIN models.val

C10_Witness ==
    /\ status = "failed" /\ Discovered /\ GotList /\ Len(UpList) = 2
    /\ UpList[1].keys = AllKeys /\ UpList[1].type = "chat"
    /\ UpList[2].keys # AllKeys
    /\ models = Nothing /\ err.class = "KeyError"

====
